---- MODULE Spec2Model ----
(***************************************************************************)
(* Model of src/computeSales.py: main() reads a product catalogue and a    *)
(* sales record (two JSON files), sums price * quantity over the sale      *)
(* records and reports the total on standard output and in                 *)
(* SalesResults.txt.                                                       *)
(*                                                                         *)
(* Money is counted in cents (a price 2.50 is 250).  A JSON number or      *)
(* string is a record [k, v]: k is its kind, v its payload (the integer   *)
(* for "int" and "intstr", hundredths for "float" and "decstr").           *)
(***************************************************************************)
EXTENDS Integers, Sequences, FiniteSets, TLC

VARIABLES pc, argc, exitStatus, exc, calls, stdout, fileOpened, priorFile, file,
          catStatus, data, idx, catalogue,
          salesStatus, sales, i, total, elapsed

vars == <<pc, argc, exitStatus, exc, calls, stdout, fileOpened, priorFile, file,
          catStatus, data, idx, catalogue,
          salesStatus, sales, i, total, elapsed>>

(* ------------------------------ bounds --------------------------------- *)

\* longest catalogue array read from the catalogue file
MaxItems == 2
\* longest sales array read from the sales file
MaxSales == 2
\* largest len(sys.argv) tried
MaxArgc == 4

(* ------------------------- JSON values --------------------------------- *)

\* the key is not present in the object
Absent == "<absent>"
\* the value is a JSON array: a python list, which is not hashable
Unhashable == "<list>"

Num(k, v) == [k |-> k, v |-> v]
NoNum == Num("absent", 0)

\* one element of the catalogue array
Item(title, price) == [obj |-> TRUE, title |-> title, price |-> price]
NonObjectItem == [obj |-> FALSE, title |-> Absent, price |-> NoNum]

\* one element of the sales array
Sale(product, quantity) == [obj |-> TRUE, Product |-> product, Quantity |-> quantity]
NonObjectSale == [obj |-> FALSE, Product |-> Absent, Quantity |-> NoNum]

CatItems ==
  { Item("Widget", Num("decstr", 250)),   \* {"title":"Widget","price":"2.50"}
    Item("Widget", Num("int", 1)),        \* {"title":"Widget","price":1}
    Item("Gadget", Num("int", -5)),       \* {"title":"Gadget","price":-5}
    Item(Absent, Num("int", 1)),          \* {"price":1}
    Item("Widget", NoNum),                \* {"title":"Widget"}
    Item("Widget", Num("badstr", 0)),     \* {"title":"Widget","price":"abc"}
    Item("Gadget", Num("null", 0)),       \* {"title":"Gadget","price":null}
    Item(Unhashable, Num("int", 1)),      \* {"title":["Widget"],"price":1}
    Item("Gadget", Num("bigint", 1)),     \* {"title":"Gadget","price":10...0 (400 digits)}
    NonObjectItem }                       \* an element that is no object, such as 7

SaleRecs ==
  { Sale("Widget", Num("int", 3)),        \* {"Product":"Widget","Quantity":3}
    Sale("Gadget", Num("intstr", 2)),     \* {"Product":"Gadget","Quantity":"2"}
    Sale("Widget", Num("float", 250)),    \* {"Product":"Widget","Quantity":2.5}
    Sale("Unknown", Num("int", 1)),       \* {"Product":"Unknown","Quantity":1}
    Sale("Widget", Num("int", -1)),       \* {"Product":"Widget","Quantity":-1}
    Sale(Absent, Num("int", 1)),          \* {"Quantity":1}
    Sale("Widget", Num("badstr", 0)),     \* {"Product":"Widget","Quantity":"abc"}
    Sale("Widget", Num("inf", 0)),        \* {"Product":"Widget","Quantity":1e999}
    Sale("Widget", Num("neginf", 0)),     \* {"Product":"Widget","Quantity":-1e999}
    Sale("Widget", Num("bigint", 1)),     \* {"Product":"Widget","Quantity":10...0 (400 digits)}
    Sale(Unhashable, Num("int", 1)),      \* {"Product":["Widget"],"Quantity":1}
    NonObjectSale }                       \* an element that is no object, such as 7

SeqsUpTo(S, n) == UNION { [1..m -> S] : m \in 0..n }

\* what open() and json.load() can make of a file: no such file, text that is
\* not JSON, a JSON array, or a JSON number, true, false or null ("scalar")
FileStatuses == {"missing", "badjson", "array", "scalar"}

(* ----------------------- python conversions ---------------------------- *)

Ok(v) == [ok |-> TRUE, exc |-> "none", v |-> v, big |-> FALSE]
Raise(e) == [ok |-> FALSE, exc |-> e, v |-> 0, big |-> FALSE]

\* truncation toward zero of n / 100
Trunc100(n) == IF n >= 0 THEN n \div 100 ELSE -((-n) \div 100)

\* int(x)
PyInt(x) ==
  CASE x.k = "int"    -> Ok(x.v)
    [] x.k = "float"  -> Ok(Trunc100(x.v))
    [] x.k = "intstr" -> Ok(x.v)
    [] x.k = "decstr" -> Raise("ValueError")
    [] x.k = "badstr" -> Raise("ValueError")
    [] x.k = "null"   -> Raise("TypeError")
    [] x.k = "inf"    -> Raise("OverflowError")
    [] x.k = "neginf" -> Raise("OverflowError")
    [] x.k = "bigint" -> [ok |-> TRUE, exc |-> "none", v |-> x.v, big |-> TRUE]

\* float(x), in cents; the inputs hold no non-finite price
PyFloat(x) ==
  CASE x.k = "int"    -> Ok(x.v * 100)
    [] x.k = "float"  -> Ok(x.v)
    [] x.k = "intstr" -> Ok(x.v * 100)
    [] x.k = "decstr" -> Ok(x.v)
    [] x.k = "badstr" -> Raise("ValueError")
    [] x.k = "null"   -> Raise("TypeError")
    [] x.k = "bigint" -> Raise("OverflowError")

\* except (KeyError, ValueError, TypeError)
Handled(e) == e \in {"KeyError", "ValueError", "TypeError"}

(* --------------------------- output lines ------------------------------ *)

\* One line of output: by is the function whose statement wrote it, kind and
\* arg and num are its text, rec is the index of the array element it is about
\* (0 when it is about none).
Line(by, kind, rec, arg, num) ==
  [by |-> by, kind |-> kind, rec |-> rec, arg |-> arg, num |-> num]

Abs(n) == IF n < 0 THEN -n ELSE n

\* f"{total:.2f}" of an amount in cents: <<sign, whole part, two fraction digits>>
FormatTotal(t) == <<IF t < 0 THEN 1 ELSE 0, Abs(t) \div 100, Abs(t) % 100>>

\* f"{elapsed_time:.6f}" of a time in microseconds: <<whole part, six fraction digits>>
FormatElapsed(e) == <<e \div 1000000, e % 1000000>>

\* the four lines of the report, as written by function by
ReportLines(by, t, e) ==
  << Line(by, "title", 0, "Sales Results", <<>>),
     Line(by, "separator", 0, "----------------------------", <<>>),
     Line(by, "total", 0, "Total sales amount: $", FormatTotal(t)),
     Line(by, "time", 0, "Execution time: seconds", FormatElapsed(e)) >>

\* what SalesResults.txt may hold before the run: nothing, or an earlier report
OldReport == ReportLines("earlier run", 12345, 7)
PriorFiles == { <<>>, OldReport }

\* the elapsed times tried, in microseconds
ElapsedTimes == {1500042}

(* ------------------------ load_product_catalogue ----------------------- *)

EmptyCatalogue == [t \in {} |-> 0]

\* catalogue[title] = price
Put(cat, title, price) ==
  [t \in DOMAIN cat \cup {title} |-> IF t = title THEN price ELSE cat[t]]

Stored(title, price) == [ok |-> TRUE, exc |-> "none", title |-> title, price |-> price]
ItemRaise(e) == [ok |-> FALSE, exc |-> e, title |-> Absent, price |-> 0]

\* the try body of the item loop: what item["title"], float(item["price"]) and
\* catalogue[title] = price come to
TryItem(item) ==
  IF ~item.obj THEN ItemRaise("TypeError")
  ELSE IF item.title = Absent THEN ItemRaise("KeyError")
  ELSE IF item.price.k = "absent" THEN ItemRaise("KeyError")
  ELSE LET f == PyFloat(item.price) IN
       IF ~f.ok THEN ItemRaise(f.exc)
       ELSE IF item.title = Unhashable THEN ItemRaise("TypeError")
       ELSE Stored(item.title, f.v)

(* -------------------------- compute_total_sales ------------------------ *)

Counted(amount) == [res |-> "counted", exc |-> "none", amount |-> amount]
NotFound == [res |-> "notfound", exc |-> "none", amount |-> 0]
SaleRaise(e) == [res |-> "raise", exc |-> e, amount |-> 0]

\* TrySale without the "product not in catalogue" test: catalogue[product]
\* raises KeyError for a product that is no key
TrySale_NoMembershipTest(cat, sale) ==
  IF ~sale.obj THEN SaleRaise("TypeError")
  ELSE IF sale.Product = Absent THEN SaleRaise("KeyError")
  ELSE IF sale.Quantity.k = "absent" THEN SaleRaise("KeyError")
  ELSE LET q == PyInt(sale.Quantity) IN
       IF ~q.ok THEN SaleRaise(q.exc)
       ELSE IF q.v <= 0 THEN SaleRaise("ValueError")
       ELSE IF sale.Product = Unhashable THEN SaleRaise("TypeError")
       ELSE IF sale.Product \notin DOMAIN cat THEN SaleRaise("KeyError")
       ELSE IF q.big THEN SaleRaise("OverflowError")
       ELSE Counted(cat[sale.Product] * q.v)

\* TrySale with a product that is no key passed over without a line, as
\* catalogue.get(product, 0) would
TrySale_SilentDefault(cat, sale) ==
  IF ~sale.obj THEN SaleRaise("TypeError")
  ELSE IF sale.Product = Absent THEN SaleRaise("KeyError")
  ELSE IF sale.Quantity.k = "absent" THEN SaleRaise("KeyError")
  ELSE LET q == PyInt(sale.Quantity) IN
       IF ~q.ok THEN SaleRaise(q.exc)
       ELSE IF q.v <= 0 THEN SaleRaise("ValueError")
       ELSE IF sale.Product = Unhashable THEN SaleRaise("TypeError")
       ELSE IF sale.Product \notin DOMAIN cat THEN Counted(0)
       ELSE IF q.big THEN SaleRaise("OverflowError")
       ELSE Counted(cat[sale.Product] * q.v)

\* the try body of the sale loop
TrySale(cat, sale) ==
  IF ~sale.obj THEN SaleRaise("TypeError")
  ELSE IF sale.Product = Absent THEN SaleRaise("KeyError")
  ELSE IF sale.Quantity.k = "absent" THEN SaleRaise("KeyError")
  ELSE LET q == PyInt(sale.Quantity) IN
       IF ~q.ok THEN SaleRaise(q.exc)
       ELSE IF q.v <= 0 THEN SaleRaise("ValueError")
       ELSE IF sale.Product = Unhashable THEN SaleRaise("TypeError")
       ELSE IF sale.Product \notin DOMAIN cat THEN NotFound
       ELSE IF q.big THEN SaleRaise("OverflowError")
       ELSE Counted(cat[sale.Product] * q.v)

(* ------------------------------- state --------------------------------- *)

\* pc: the statement main is at; argc: len(sys.argv); exitStatus: the process's
\* exit status (-1 while it runs); exc: the exception that ended it; calls: the
\* functions main has called, in order; stdout: the lines printed;
\* fileOpened: SalesResults.txt has been opened; priorFile: what it held when
\* opened; file: what it holds since; catStatus, salesStatus: what the two input
\* files turned out to be; data, idx, catalogue: the locals of
\* load_product_catalogue; sales, i, total: those of compute_total_sales;
\* elapsed: elapsed_time in microseconds.

\* sales as load_sales returned it: the array's elements, or a number, true,
\* false or null (arr = FALSE), which "for sale in sales" cannot iterate
SalesValue(arr, items) == [arr |-> arr, items |-> items]

Init ==
  /\ pc = "start"
  /\ argc \in 1..MaxArgc
  /\ exitStatus = -1
  /\ exc = "none"
  /\ calls = <<>>
  /\ stdout = <<>>
  /\ priorFile = <<>>
  /\ file = <<>>
  /\ fileOpened = FALSE
  /\ catStatus = "unread"
  /\ data = <<>>
  /\ idx = 0
  /\ catalogue = EmptyCatalogue
  /\ salesStatus = "unread"
  /\ sales = SalesValue(TRUE, <<>>)
  /\ i = 0
  /\ total = 0
  /\ elapsed = 0

\* an exception no handler catches: the interpreter prints a traceback on
\* standard error and ends the process with status 1
Uncaught(e) ==
  /\ pc' = "crashed"
  /\ exc' = e
  /\ exitStatus' = 1

(* -------------------------------- main --------------------------------- *)

\* len(sys.argv) != 3: usage and sys.exit(1)
MainUsage ==
  /\ pc = "start"
  /\ argc # 3
  /\ stdout' = Append(stdout, Line("main", "usage", 0, "Usage: python computeSales.py priceCatalogue.json salesRecord.json", <<>>))
  /\ exitStatus' = 1
  /\ pc' = "exited"
  /\ UNCHANGED <<argc, fileOpened, priorFile, exc, calls, file, catStatus, data, idx, catalogue,
                 salesStatus, sales, i, total, elapsed>>

\* start_time = time.time() and the two paths
MainStart ==
  /\ pc = "start"
  /\ argc = 3
  /\ pc' = "call_catalogue"
  /\ UNCHANGED <<argc, fileOpened, priorFile, exitStatus, exc, calls, stdout, file, catStatus, data, idx,
                 catalogue, salesStatus, sales, i, total, elapsed>>

(* ------------------------ load_product_catalogue ----------------------- *)

\* catalogue = {}, open and json.load: a missing file or bad JSON is reported and
\* the empty catalogue returned; an array starts the item loop; iterating a
\* number, true, false or null raises TypeError, which neither handler names
LoadCatalogueOpen ==
  /\ pc = "call_catalogue"
  /\ calls' = Append(calls, "load_product_catalogue")
  /\ catalogue' = EmptyCatalogue
  /\ \E st \in FileStatuses :
       /\ catStatus' = st
       /\ \/ /\ st = "missing"
             /\ stdout' = Append(stdout, Line("load_product_catalogue", "file_not_found", 0, "catalogue", <<>>))
             /\ pc' = "call_sales"
             /\ UNCHANGED <<data, idx, exc, exitStatus>>
          \/ /\ st = "badjson"
             /\ stdout' = Append(stdout, Line("load_product_catalogue", "invalid_json", 0, "catalogue", <<>>))
             /\ pc' = "call_sales"
             /\ UNCHANGED <<data, idx, exc, exitStatus>>
          \/ /\ st = "array"
             /\ \E d \in SeqsUpTo(CatItems, MaxItems) : data' = d
             /\ idx' = 1
             /\ pc' = "cat_loop"
             /\ UNCHANGED <<stdout, exc, exitStatus>>
          \/ /\ st = "scalar"
             /\ Uncaught("TypeError")
             /\ UNCHANGED <<stdout, data, idx>>
  /\ UNCHANGED <<argc, fileOpened, priorFile, file, salesStatus, sales, i, total, elapsed>>

\* one turn of "for item in data"
LoadCatalogueItem ==
  /\ pc = "cat_loop"
  /\ idx <= Len(data)
  /\ LET r == TryItem(data[idx]) IN
       \/ /\ r.ok
          /\ catalogue' = Put(catalogue, r.title, r.price)
          /\ idx' = idx + 1
          /\ UNCHANGED <<stdout, pc, exc, exitStatus>>
       \/ /\ ~r.ok
          /\ Handled(r.exc)
          /\ stdout' = Append(stdout, Line("load_product_catalogue", "invalid_product", idx, r.exc, <<>>))
          /\ idx' = idx + 1
          /\ UNCHANGED <<catalogue, pc, exc, exitStatus>>
       \/ /\ ~r.ok
          /\ ~Handled(r.exc)
          /\ Uncaught(r.exc)
          /\ UNCHANGED <<catalogue, stdout, idx>>
  /\ UNCHANGED <<argc, fileOpened, priorFile, calls, file, catStatus, data, salesStatus, sales, i, total, elapsed>>

\* return catalogue: the loader's locals are gone
LoadCatalogueReturn ==
  /\ pc = "cat_loop"
  /\ idx > Len(data)
  /\ pc' = "call_sales"
  /\ data' = <<>>
  /\ idx' = 0
  /\ UNCHANGED <<argc, fileOpened, priorFile, exitStatus, exc, calls, stdout, file, catStatus, catalogue,
                 salesStatus, sales, i, total, elapsed>>

(* ------------------------------ load_sales ----------------------------- *)

\* what load_sales returns for a file in state st holding the array d
LoadSalesResult(st, d) ==
  CASE st = "array"  -> SalesValue(TRUE, d)
    [] st = "scalar" -> SalesValue(FALSE, <<>>)
    [] OTHER         -> SalesValue(TRUE, <<>>)

LoadSales ==
  /\ pc = "call_sales"
  /\ calls' = Append(calls, "load_sales")
  /\ \E st \in FileStatuses :
       /\ salesStatus' = st
       /\ \E d \in (IF st = "array" THEN SeqsUpTo(SaleRecs, MaxSales) ELSE {<<>>}) :
            sales' = LoadSalesResult(st, d)
       /\ stdout' = CASE st = "missing" -> Append(stdout, Line("load_sales", "file_not_found", 0, "sales", <<>>))
                      [] st = "badjson" -> Append(stdout, Line("load_sales", "invalid_json", 0, "sales", <<>>))
                      [] OTHER          -> stdout
  /\ pc' = "call_aggregate"
  /\ UNCHANGED <<argc, fileOpened, priorFile, exitStatus, exc, file, catStatus, data, idx, catalogue,
                 i, total, elapsed>>

(* -------------------------- compute_total_sales ------------------------ *)

\* total = 0.0 and the start of "for sale in sales"
AggregateStart ==
  /\ pc = "call_aggregate"
  /\ calls' = Append(calls, "compute_total_sales")
  /\ total' = 0
  /\ \/ /\ sales.arr
        /\ i' = 1
        /\ pc' = "agg_loop"
        /\ UNCHANGED <<exc, exitStatus>>
     \/ /\ ~sales.arr
        /\ Uncaught("TypeError")
        /\ UNCHANGED i
  /\ UNCHANGED <<argc, fileOpened, priorFile, stdout, file, catStatus, data, idx, catalogue,
                 salesStatus, sales, elapsed>>

\* one turn of "for sale in sales"
AggregateStep ==
  /\ pc = "agg_loop"
  /\ i <= Len(sales.items)
  /\ LET r == TrySale(catalogue, sales.items[i]) IN
       \/ /\ r.res = "counted"
          /\ total' = total + r.amount
          /\ i' = i + 1
          /\ UNCHANGED <<stdout, pc, exc, exitStatus>>
       \/ /\ r.res = "notfound"
          /\ stdout' = Append(stdout, Line("compute_total_sales", "not_found", i, sales.items[i].Product, <<>>))
          /\ i' = i + 1
          /\ UNCHANGED <<total, pc, exc, exitStatus>>
       \/ /\ r.res = "raise"
          /\ Handled(r.exc)
          /\ stdout' = Append(stdout, Line("compute_total_sales", "invalid_sale", i, r.exc, <<>>))
          /\ i' = i + 1
          /\ UNCHANGED <<total, pc, exc, exitStatus>>
       \/ /\ r.res = "raise"
          /\ ~Handled(r.exc)
          /\ Uncaught(r.exc)
          /\ UNCHANGED <<total, stdout, i>>
  /\ UNCHANGED <<argc, fileOpened, priorFile, calls, file, catStatus, data, idx, catalogue,
                 salesStatus, sales, elapsed>>

\* return total
AggregateReturn ==
  /\ pc = "agg_loop"
  /\ i > Len(sales.items)
  /\ pc' = "report"
  /\ UNCHANGED <<argc, fileOpened, priorFile, exitStatus, exc, calls, stdout, file, catStatus, data, idx,
                 catalogue, salesStatus, sales, i, total, elapsed>>

(* --------------------------- the report -------------------------------- *)

\* the lines main prints: a blank line and the report
PrintedReport(t, e) ==
  <<Line("main", "blank", 0, "", <<>>)>> \o ReportLines("main", t, e)

\* elapsed_time = time.time() - start_time and the four print calls of main
MainReport ==
  /\ pc = "report"
  /\ \E e \in ElapsedTimes :
       /\ elapsed' = e
       /\ stdout' = stdout \o PrintedReport(total, e)
  /\ pc' = "call_save"
  /\ UNCHANGED <<argc, fileOpened, priorFile, exitStatus, exc, calls, file, catStatus, data, idx,
                 catalogue, salesStatus, sales, i, total>>

\* save_results opening the file with "a": the report follows what was there
WrittenFile_Append(old, t, e) == old \o ReportLines("save_results", t, e)

\* what open("SalesResults.txt", "w") and the four writes leave in the file
WrittenFile(old, t, e) == ReportLines("save_results", t, e)

\* save_results(total, elapsed_time): open() finds the file as some earlier
\* process left it, and may fail (OSError), which nothing catches and which
\* leaves the file as it was
SaveResults ==
  /\ pc = "call_save"
  /\ calls' = Append(calls, "save_results")
  /\ fileOpened' = TRUE
  /\ \E old \in PriorFiles :
       /\ priorFile' = old
       /\ \/ /\ file' = WrittenFile(old, total, elapsed)
             /\ pc' = "done"
             /\ exitStatus' = 0
             /\ UNCHANGED exc
          \/ /\ Uncaught("OSError")
             /\ file' = old
  /\ UNCHANGED <<argc, stdout, catStatus, data, idx, catalogue,
                 salesStatus, sales, i, total, elapsed>>

Next ==
  \/ MainUsage
  \/ MainStart
  \/ LoadCatalogueOpen
  \/ LoadCatalogueItem
  \/ LoadCatalogueReturn
  \/ LoadSales
  \/ AggregateStart
  \/ AggregateStep
  \/ AggregateReturn
  \/ MainReport
  \/ SaveResults

Spec == Init /\ [][Next]_vars

(* ===================== the claims' vocabulary ========================== *)

Last(s) == s[Len(s)]

\* the text of a line, whoever wrote it
Text(l) == [kind |-> l.kind, arg |-> l.arg, num |-> l.num]

\* the program has ended: sys.exit(1), the end of main, or a traceback
Ended == pc \in {"exited", "done", "crashed"}

\* the function that was running when the state was reached
Running == IF calls = <<>> THEN "main" ELSE Last(calls)

\* the lines compute_total_sales has printed, in the order printed
AggDiags == SelectSeq(stdout, LAMBDA l : l.by = "compute_total_sales")

\* the lines load_product_catalogue has printed
CatDiags == SelectSeq(stdout, LAMBDA l : l.by = "load_product_catalogue")

\* the lines load_sales has printed
SalesDiags == SelectSeq(stdout, LAMBDA l : l.by = "load_sales")

\* how many lines of seq are about array element j
CountRec(seq, j) == Cardinality({ n \in 1..Len(seq) : seq[n].rec = j })

\* a JSON value that is a number or the text of one, and the integer it stands
\* for (fractions dropped); a number beyond every float stands for none
IntConvertible(x) == x.k \in {"int", "intstr", "float", "bigint"}
IntValue(x) == IF x.k = "float" THEN Trunc100(x.v) ELSE x.v

\* a JSON value that is zero or negative
NonPositive(x) ==
  \/ x.k \in {"int", "intstr", "float", "bigint"} /\ x.v <= 0
  \/ x.k = "neginf"

\* a product that is text
TextProduct(s) == s.obj /\ s.Product \notin {Absent, Unhashable}

\* both fields present and a Quantity that converts to an integer > 0
WellFormedSale(s) ==
  /\ s.obj
  /\ s.Product # Absent
  /\ s.Quantity.k # "absent"
  /\ IntConvertible(s.Quantity)
  /\ IntValue(s.Quantity) > 0

\* a record the total counts
ValidSale(cat, s) == WellFormedSale(s) /\ s.Product \in DOMAIN cat

RECURSIVE SumValid(_, _)
\* the sum of price * quantity over the valid records of S
SumValid(cat, S) ==
  IF S = <<>> THEN 0
  ELSE SumValid(cat, SubSeq(S, 1, Len(S) - 1))
       + (IF ValidSale(cat, Last(S)) THEN cat[Last(S).Product] * IntValue(Last(S).Quantity) ELSE 0)

\* an entry with a title that can be a key and a price float() converts
ValidItem(it) ==
  /\ it.obj
  /\ it.title \notin {Absent, Unhashable}
  /\ it.price.k \in {"int", "intstr", "float", "decstr"}

\* the price of an entry, in cents
PriceOf(it) == IF it.price.k \in {"int", "intstr"} THEN it.price.v * 100 ELSE it.price.v

\* the last valid entry of d with the title t
LastValid(d, t) ==
  CHOOSE n \in 1..Len(d) :
    /\ ValidItem(d[n]) /\ d[n].title = t
    /\ \A m \in (n + 1)..Len(d) : ~(ValidItem(d[m]) /\ d[m].title = t)

\* the mapping claimed for the array d
LastWins(d) ==
  [t \in { d[n].title : n \in { m \in 1..Len(d) : ValidItem(d[m]) } } |-> PriceOf(d[LastValid(d, t)])]

(* ============================== claims ================================= *)

\* compute_total_sales has ended, by returning or by an exception it let through
AggregatorEnded ==
  \/ pc = "report"
  \/ pc = "crashed" /\ Running = "compute_total_sales"

\* C1: for every catalogue and every sequence of sale records,
\* compute_total_sales returns the sum of price * quantity over the records
\* with both fields, a Quantity converting to an integer > 0 and a Product that
\* is a key of the catalogue; the other records contribute nothing.
C1_ReturnsSumOfValidSales ==
  (AggregatorEnded /\ sales.arr) =>
     (pc = "report" /\ total = SumValid(catalogue, sales.items))

\* C2: whatever the records of the sales array are, compute_total_sales never
\* lets an exception through: it always ends by returning a total.
C2_AggregatorNeverRaises ==
  sales.arr => ~(pc = "crashed" /\ Running = "compute_total_sales")

\* the records compute_total_sales has dealt with are 1 .. i-1
Processed(j) == j \in 1..Len(sales.items) /\ j < i

\* C3 as stated: every processed record whose Product is not a key of the
\* catalogue got the "not found" line and no "invalid sale record" line, and a
\* "not found" line is only ever about a record whose Product is no key.
C3_EveryUnmatchedProductIsNotFound ==
  /\ \A j \in 1..Len(sales.items) :
       (Processed(j) /\ TextProduct(sales.items[j])
          /\ sales.items[j].Product \notin DOMAIN catalogue) =>
         /\ \E n \in 1..Len(AggDiags) : AggDiags[n].rec = j /\ AggDiags[n].kind = "not_found"
         /\ \A n \in 1..Len(AggDiags) : AggDiags[n].rec = j => AggDiags[n].kind # "invalid_sale"
  /\ \A n \in 1..Len(AggDiags) :
       AggDiags[n].kind = "not_found" =>
         sales.items[AggDiags[n].rec].Product \notin DOMAIN catalogue

\* C3 as amended: every processed record that has both fields, a Quantity
\* converting to an integer > 0 and a text Product that is no key of the
\* catalogue got exactly one line, the "not found" line naming its Product, and
\* no "invalid sale record" line; a "not found" line is only ever about such a
\* record.
C3_WellFormedUnmatchedIsNotFound ==
  /\ \A j \in 1..Len(sales.items) :
       (Processed(j) /\ TextProduct(sales.items[j]) /\ WellFormedSale(sales.items[j])
          /\ sales.items[j].Product \notin DOMAIN catalogue) =>
         /\ CountRec(AggDiags, j) = 1
         /\ \A n \in 1..Len(AggDiags) :
              AggDiags[n].rec = j =>
                AggDiags[n].kind = "not_found" /\ AggDiags[n].arg = sales.items[j].Product
  /\ \A n \in 1..Len(AggDiags) :
       AggDiags[n].kind = "not_found" =>
         /\ Processed(AggDiags[n].rec)
         /\ TextProduct(sales.items[AggDiags[n].rec])
         /\ WellFormedSale(sales.items[AggDiags[n].rec])
         /\ sales.items[AggDiags[n].rec].Product \notin DOMAIN catalogue

\* a run over a catalogue with a product in which one record was counted,
\* one well-formed record named a product that is no key, and the loop is over
C3_Witness ==
  /\ pc = "report"
  /\ catalogue # EmptyCatalogue
  /\ total > 0
  /\ \E j \in 1..Len(sales.items) :
       /\ WellFormedSale(sales.items[j])
       /\ sales.items[j].Product = "Unknown"
       /\ \E n \in 1..Len(AggDiags) : AggDiags[n].rec = j /\ AggDiags[n].kind = "not_found"

\* C4: the total starts at zero and no step of the run makes it negative or
\* smaller than it was.
C4_TotalNeverDecreases == [][total' >= total /\ total' >= 0]_vars

\* load_product_catalogue has ended, by returning or by an exception it let through
CatalogueLoopEnded ==
  \/ pc = "cat_loop" /\ idx > Len(data)
  \/ pc = "crashed" /\ Running = "load_product_catalogue"

\* C5: for a file holding a JSON array, load_product_catalogue returns the
\* mapping from the titles of the valid entries to the price of the last valid
\* entry with that title, and every invalid entry is skipped with one line.
C5_LoaderReturnsLastWins ==
  (catStatus = "array" /\ CatalogueLoopEnded) =>
     /\ pc = "cat_loop"
     /\ catalogue = LastWins(data)
     /\ \A n \in 1..Len(data) :
          CountRec(CatDiags, n) = (IF ValidItem(data[n]) THEN 0 ELSE 1)

\* a file that is missing or is not JSON
Unreadable(st) == st \in {"missing", "badjson"}

\* the line of standard output that reports the total t
ReportsTotal(t) ==
  \E n \in 1..Len(stdout) : stdout[n].kind = "total" /\ stdout[n].num = FormatTotal(t)

\* C6: with a catalogue file or a sales file that is missing or is not JSON
\* (and the other file holding any JSON array), the loader printed one line and
\* returned an empty result, the run went on through compute_total_sales and
\* save_results, and the total reported is 0.
C6_UnreadableFileReportsZero ==
  (Ended /\ (Unreadable(catStatus) \/ Unreadable(salesStatus))
         /\ catStatus # "scalar" /\ salesStatus # "scalar") =>
     /\ Unreadable(catStatus) => (catalogue = EmptyCatalogue /\ Len(CatDiags) = 1)
     /\ Unreadable(salesStatus) => (sales = SalesValue(TRUE, <<>>) /\ Len(SalesDiags) = 1)
     /\ \E n \in 1..Len(calls) : calls[n] = "compute_total_sales"
     /\ \E n \in 1..Len(calls) : calls[n] = "save_results"
     /\ ReportsTotal(0)

\* C7: a step of the loop on a record whose Quantity is zero or negative skips
\* the record: it goes on to the next record, leaves the total as it was and
\* prints the one "invalid sale record" line, whatever the record's Product.
C7_NonPositiveQuantitySkipped ==
  [][ (pc = "agg_loop" /\ i <= Len(sales.items)
         /\ sales.items[i].obj
         /\ NonPositive(sales.items[i].Quantity))
      => /\ pc' = "agg_loop"
         /\ i' = i + 1
         /\ total' = total
         /\ Len(stdout') = Len(stdout) + 1
         /\ Last(stdout').kind = "invalid_sale" ]_vars

\* C8: the lines compute_total_sales prints are in the order of the records:
\* their record indices increase, every processed record that is not counted
\* has exactly one line, every counted record and every record not yet
\* processed has none, and a "not found" line names its own record's Product.
C8_DiagnosticsInRecordOrder ==
  /\ \A a, b \in 1..Len(AggDiags) : a < b => AggDiags[a].rec < AggDiags[b].rec
  /\ \A n \in 1..Len(AggDiags) : Processed(AggDiags[n].rec)
  /\ \A j \in 1..Len(sales.items) :
       CountRec(AggDiags, j) =
         (IF Processed(j) /\ ~ValidSale(catalogue, sales.items[j]) THEN 1 ELSE 0)
  /\ \A n \in 1..Len(AggDiags) :
       AggDiags[n].kind = "not_found" =>
         AggDiags[n].arg = sales.items[AggDiags[n].rec].Product

\* the loop is over after a skipped record, a counted record and no line for
\* the counted one
C8_WitnessSkippedThenCounted ==
  /\ pc = "report"
  /\ Len(sales.items) = 2
  /\ ~ValidSale(catalogue, sales.items[1])
  /\ ValidSale(catalogue, sales.items[2])
  /\ Len(AggDiags) = 1
  /\ total > 0

\* C9: without exactly two arguments the program prints the usage line and
\* exits with status 1 having called no component and left SalesResults.txt
\* alone; with two arguments (and files holding JSON arrays, or missing, or not
\* JSON) each component has run exactly once, in the order catalogue loader,
\* sales loader, aggregator, report writer.
C9_UsageOrEveryComponentOnce ==
  (Ended /\ catStatus # "scalar" /\ salesStatus # "scalar") =>
     IF argc # 3
       THEN /\ pc = "exited" /\ exitStatus = 1
            /\ calls = <<>>
            /\ ~fileOpened
            /\ Len(stdout) = 1 /\ stdout[1].kind = "usage"
       ELSE calls = <<"load_product_catalogue", "load_sales",
                      "compute_total_sales", "save_results">>

\* the last four lines of standard output
PrintedTail == SubSeq(stdout, Len(stdout) - 3, Len(stdout))

\* the report is on standard output and in the file, with the same four lines
SameReport ==
  /\ Len(stdout) >= 5
  /\ Len(file) = 4
  /\ \A n \in 1..4 : Text(file[n]) = Text(PrintedTail[n])
  /\ file[3].kind = "total" /\ file[3].num = FormatTotal(total)
  /\ file[4].kind = "time" /\ file[4].num = FormatElapsed(elapsed)
  /\ stdout[Len(stdout) - 4].kind = "blank"

====
